---- MODULE Spec2Model ----
(***************************************************************************)
(* Model of the Resonate FaaS adapter for Supabase edge functions:         *)
(* Resonate.handler, Resonate.onTerminate and buildForwardedURL.           *)
(*                                                                         *)
(* Two snapshots of the class are modelled side by side.  `variant` says   *)
(* which one was constructed:                                              *)
(*   "index"  - src/src/index.ts    (observer, tracer span, path fix)      *)
(*   "part0"  - src/unnamed/part_000 (no observer, header-only URL)        *)
(*                                                                         *)
(* The execution engine (ResonateInner), the tracer, the network client    *)
(* and the observer are external: their behaviour is a nondeterministic    *)
(* choice over what their interface allows (return, throw, call back now,  *)
(* call back later).  The engine invokes the completion callback at most   *)
(* once, with a status whose kind is "completed" (and a defined promise    *)
(* value) or "suspended".                                                  *)
(***************************************************************************)
EXTENDS Naturals, Sequences, FiniteSets, TLC

VARIABLES
    variant,        \* which snapshot of class Resonate is running
    onTerminateFn,  \* this.onTerminateFn: "undefined", or how the observer behaves
    pc,             \* position of the handler invocation
    req,            \* the Request being handled
    url,            \* const url = buildForwardedURL(req)
    completion,     \* state of the `completion` promise
    outcome,        \* state of the promise handler() returned
    response,       \* the Response the handler's promise was fulfilled with
    resolveCalls,   \* number of times resolve(...) ran
    cb,             \* <<>>, or <<arguments the engine gave the callback>>
    notified,       \* arguments the observer was invoked with
    thrown,         \* exceptions raised while handling the request
    trace           \* steps of the request, in execution order

vars == <<variant, onTerminateFn, pc, req, url, completion, outcome, response,
          resolveCalls, cb, notified, thrown, trace>>

(***************************************************************************)
(* Bounds                                                                  *)
(***************************************************************************)
\* longest list of callbacks a suspended status carries
MaxCallbacks == 2

(***************************************************************************)
(* JavaScript values: records tagged by `t`.  Objects carry their own      *)
(* properties as further record fields.                                    *)
(***************************************************************************)
JUndefined == [t |-> "undefined"]
JNull == [t |-> "null"]
JStr(s) == [t |-> "string", v |-> s]
JNum(n) == [t |-> "number", v |-> n]
JBool(b) == [t |-> "boolean", v |-> b]

\* v == null  (null or undefined)
IsNullish(v) == v.t \in {"undefined", "null"}

\* ToBoolean(v), as used by `!v`, `a && b` and `c ? x : y`
Truthy(v) ==
    IF IsNullish(v) THEN FALSE
    ELSE IF v.t = "boolean" THEN v.v
    ELSE IF v.t = "number" THEN v.v # 0
    ELSE IF v.t = "string" THEN v.v # ""
    ELSE TRUE

\* a ?? b
Coalesce(a, b) == IF IsNullish(a) THEN b ELSE a

\* o.k for a non-nullish o (a missing property reads as undefined)
Get(o, k) == IF k \in DOMAIN o THEN o[k] ELSE JUndefined

\* v === "s"
StrictEqStr(v, s) == v.t = "string" /\ v.v = s

\* `${v}` for the values a header lookup yields
Interpolate(v) == IF v.t = "null" THEN "null" ELSE v.v

\* s.startsWith(p)
StartsWith(s, p) == Len(s) >= Len(p) /\ SubSeq(s, 1, Len(p)) = p

\* JSON.stringify drops the properties whose value is undefined
Stringify(o) == [k \in {f \in DOMAIN o : f = "t" \/ o[f].t # "undefined"} |-> o[k]]

\* { k1: v1, ... } : an object literal, given as a record of its properties
Object(props) ==
    [k \in {"t"} \cup DOMAIN props |-> IF k = "t" THEN "object" ELSE props[k]]

\* [x1, x2, ...] : an array, given as the sequence of its items
Array(items) == [t |-> "array", items |-> items]

\* new Response(JSON.stringify(body), { status })
Response(status, body) == [status |-> status, body |-> Stringify(body)]

(***************************************************************************)
(* Requests                                                                *)
(***************************************************************************)
Variants == {"index", "part0"}

Methods == {"POST", "GET", "PUT"}

HeaderValue ==
    [n \in {"x-forwarded-host", "x-forwarded-proto", "x-forwarded-port",
            "x-forwarded-path", "host"} |->
        CASE n = "x-forwarded-host" -> "127.0.0.1"
          [] n = "x-forwarded-proto" -> "https"
          [] n = "x-forwarded-port" -> "54321"
          [] n = "x-forwarded-path" -> "/functions/v1/hello"
          [] n = "host" -> "edge.internal"]

\* every subset of the headers may be present
HeaderSets == {[n \in S |-> HeaderValue[n]] : S \in SUBSET DOMAIN HeaderValue}

\* new URL(req.url): the raw URL is always https://<hostname>[:<port>]<pathname>
RawURLs ==
    [protocol : {"https"}, hostname : {"proj.example.co"}, port : {"", "8443"},
     pathname : {"/hello", "/functions/v1/hello", "/functions/v1x"}]

TaskValues == {JNum(0), Object([rootPromiseId |-> JStr("root")])}

HrefValues == {Object([base |-> JStr("http://server:8001")])}

TypeValues == {JStr("invoke"), JStr("resume"), JStr("other")}

\* the JSON objects a body may hold: each of type, task and href present or not
BodyObjects ==
    LET Opt(S) == {<<>>} \cup {<<x>> : x \in S}
        Obj(ty, ta, hr) ==
            [k \in {"t"} \cup (IF ty = <<>> THEN {} ELSE {"type"})
                         \cup (IF ta = <<>> THEN {} ELSE {"task"})
                         \cup (IF hr = <<>> THEN {} ELSE {"href"}) |->
                CASE k = "t" -> "object"
                  [] k = "type" -> ty[1]
                  [] k = "task" -> ta[1]
                  [] k = "href" -> hr[1]]
    IN {Obj(ty, ta, hr) : ty \in Opt(TypeValues), ta \in Opt(TaskValues),
                          hr \in Opt(HrefValues)}

\* what the body text parses to: <<>> when JSON.parse throws, else <<value>>
JsonOutcomes == {<<>>} \cup {<<b>> : b \in {JNull, JNum(5)} \cup BodyObjects}

\* req.body is null exactly when the request has no body; the empty text of
\* an absent body is not JSON
Requests ==
    {r \in [method : Methods, headers : HeaderSets, url : RawURLs,
            bodyStream : BOOLEAN, json : JsonOutcomes] :
        ~r.bodyStream => r.json = <<>>}

NoRequest ==
    [method |-> "", headers |-> [n \in {} |-> ""],
     url |-> [protocol |-> "", hostname |-> "", port |-> "", pathname |-> ""],
     bodyStream |-> FALSE, json |-> <<>>]

\* req.headers.get(name)
HeadersGet(headers, name) ==
    IF name \in DOMAIN headers THEN JStr(headers[name]) ELSE JNull

(***************************************************************************)
(* buildForwardedURL                                                       *)
(***************************************************************************)
FunctionsPrefix == "/functions/v1"

\* mutant: the prefix test is inverted, so a path lacking it is left alone
ProductionPathFixInverted(forwardedHost, path) ==
    IF ~Truthy(forwardedHost) /\ StartsWith(path.v, FunctionsPrefix)
    THEN FunctionsPrefix \o Interpolate(path)
    ELSE Interpolate(path)

\* if (!forwardedHost && !path.startsWith("/functions/v1")) path = `/functions/v1${path}`
ProductionPathFix(forwardedHost, path) ==
    IF ~Truthy(forwardedHost) /\ ~StartsWith(path.v, FunctionsPrefix)
    THEN FunctionsPrefix \o Interpolate(path)
    ELSE Interpolate(path)

buildForwardedURLIndex(r) ==
    LET forwardedHost == HeadersGet(r.headers, "x-forwarded-host")
        host == Coalesce(forwardedHost, JStr(r.url.hostname))
        proto == Coalesce(HeadersGet(r.headers, "x-forwarded-proto"), JStr("http"))
        forwardedPort == HeadersGet(r.headers, "x-forwarded-port")
        port == IF Truthy(forwardedHost) /\ Truthy(forwardedPort)
                THEN ":" \o Interpolate(forwardedPort) ELSE ""
        path0 == Coalesce(HeadersGet(r.headers, "x-forwarded-path"),
                          JStr(r.url.pathname))
        path == ProductionPathFix(forwardedHost, path0)
    IN Interpolate(proto) \o "://" \o Interpolate(host) \o port \o path

buildForwardedURLPart0(r) ==
    LET proto == Coalesce(HeadersGet(r.headers, "x-forwarded-proto"), JStr("http"))
        host == Coalesce(HeadersGet(r.headers, "x-forwarded-host"),
                         HeadersGet(r.headers, "host"))
        port == HeadersGet(r.headers, "x-forwarded-port")
        path == HeadersGet(r.headers, "x-forwarded-path")
    IN Interpolate(proto) \o "://" \o Interpolate(host)
         \o (IF Truthy(port) THEN ":" \o Interpolate(port) ELSE "")
         \o Interpolate(path)

buildForwardedURL(v, r) ==
    IF v = "index" THEN buildForwardedURLIndex(r) ELSE buildForwardedURLPart0(r)

(***************************************************************************)
(* Engine: what process(...) may do and what its callback may report       *)
(***************************************************************************)
\* process throws before calling back, calls back before it returns, or
\* calls back after the handler has returned the pending promise
EngineModes == {"throws", "sync", "async"}

\* where the code between the body checks and `return completion` may stop:
\* a collaborator's constructor throws, startSpan throws, or process runs
ResumeSteps == {"collaborators", "startSpan"} \cup EngineModes

Errors == {JBool(FALSE), JBool(TRUE)}

ResultValues == {Object([data |-> JStr("r1")]), Object([data |-> JStr("r2")])}

PromiseIdValues == {"a", "b"}

CallbackLists ==
    UNION {[1..n -> {Object([promiseId |-> JStr(p)]) : p \in PromiseIdValues}] :
             n \in 0..MaxCallbacks}

CompletedStatus(value) ==
    Object([kind |-> JStr("completed"), promise |-> Object([value |-> value])])

SuspendedStatus(callbacks) ==
    Object([kind |-> JStr("suspended"), callbacks |-> Array(callbacks)])

Statuses ==
    {JUndefined} \cup {CompletedStatus(x) : x \in ResultValues}
                 \cup {SuspendedStatus(c) : c \in CallbackLists}

\* how a registered observer behaves when invoked
ObserverFns == {"returns", "throws"}

(***************************************************************************)
(* Resonate.handler: the checks                                            *)
(***************************************************************************)
\* mutant: PUT is let through as well
MethodAllowedAlsoPut(method) == method \in {"POST", "PUT"}

\* req.method !== "POST" is the rejection
MethodAllowed(method) == method = "POST"

\* mutant: the `!body.task` disjunct is forgotten
BodyShapeOkNoTask(body) ==
    /\ Truthy(body)
    /\ StrictEqStr(Get(body, "type"), "invoke") \/ StrictEqStr(Get(body, "type"), "resume")

\* the negation of: !body || !(body.type === "invoke" || body.type === "resume")
\*                  || !body.task
BodyShapeOk(body) ==
    /\ Truthy(body)
    /\ StrictEqStr(Get(body, "type"), "invoke") \/ StrictEqStr(Get(body, "type"), "resume")
    /\ Truthy(Get(body, "task"))

\* mutant: only `!status` is tested, the error is ignored
ProcessingFailedStatusOnly(error, status) == ~Truthy(status)

\* error || !status
ProcessingFailed(error, status) == Truthy(error) \/ ~Truthy(status)

\* mutant: the identifiers come out in reverse order
PromiseIdsReversed(callbacks) ==
    Array([i \in 1..Len(callbacks.items) |->
              callbacks.items[Len(callbacks.items) + 1 - i].promiseId])

\* status.callbacks.map((callback) => callback.promiseId)
PromiseIds(callbacks) ==
    Array([i \in 1..Len(callbacks.items) |-> callbacks.items[i].promiseId])

MethodNotAllowedResponse ==
    Response(405, Object([error |-> JStr("Method not allowed. Use POST.")]))

BodyMissingResponse ==
    Response(400, Object([error |-> JStr("Request body missing.")]))

BodyShapeResponse ==
    Response(400, Object([error |->
        JStr("Request body must contain \"type\" and \"task\" for Resonate invocation.")]))

\* the catch block: `Handler failed: ${error}`
HandlerFailedResponse(detail) ==
    Response(500, Object([error |-> JStr("Handler failed: " \o detail)]))

ProcessingFailedResponse(error, status) ==
    Response(500, Object([error |-> JStr("Task processing failed"),
                          details |-> Stringify(Object([error |-> error,
                                                        status |-> status]))]))

CompletedResponse(status, u) ==
    Response(200, Object([status |-> JStr("completed"),
                          result |-> status.promise.value,
                          requestUrl |-> JStr(u)]))

SuspendedResponse(status, u) ==
    Response(200, Object([status |-> JStr("suspended"), requestUrl |-> JStr(u)]))

(***************************************************************************)
(* The completion callback (error, status) => { ... }, as the record of    *)
(* what one run of it does: the steps in order, the Response it resolves   *)
(* the promise with (<<>> when resolve is never reached), the arguments    *)
(* it hands the observer, and whether it ends by throwing.                 *)
(* assertDefined(status.promise.value) passes: a completed promise has a   *)
(* value.                                                                  *)
(***************************************************************************)
\* mutant: resolve(resp) runs first and the observer is invoked after it
ResolveThenNotify(v, fn, arg, resp) ==
    IF v = "index" /\ fn # "undefined"
    THEN [events |-> <<"callback", "resolve", "observer">>, resolved |-> <<resp>>,
          notified |-> <<arg>>, threw |-> fn = "throws"]
    ELSE [events |-> <<"callback", "resolve">>, resolved |-> <<resp>>,
          notified |-> <<>>, threw |-> FALSE]

\* this.onTerminateFn?.(arg), then resolve(resp)
NotifyThenResolve(v, fn, arg, resp) ==
    IF v = "index" /\ fn # "undefined"
    THEN IF fn = "throws"
         THEN [events |-> <<"callback", "observer">>, resolved |-> <<>>,
               notified |-> <<arg>>, threw |-> TRUE]
         ELSE [events |-> <<"callback", "observer", "resolve">>,
               resolved |-> <<resp>>, notified |-> <<arg>>, threw |-> FALSE]
    ELSE [events |-> <<"callback", "resolve">>, resolved |-> <<resp>>,
          notified |-> <<>>, threw |-> FALSE]

Callback(v, fn, u, error, status) ==
    IF ProcessingFailed(error, status)
    THEN [events |-> <<"callback", "resolve">>,
          resolved |-> <<ProcessingFailedResponse(error, status)>>,
          notified |-> <<>>, threw |-> FALSE]
    ELSE IF StrictEqStr(status.kind, "completed")
    THEN NotifyThenResolve(v, fn,
             [status |-> JStr("completed"), result |-> status.promise.value],
             CompletedResponse(status, u))
    ELSE IF StrictEqStr(status.kind, "suspended")
    THEN NotifyThenResolve(v, fn,
             [status |-> JStr("suspended"), result |-> PromiseIds(status.callbacks)],
             SuspendedResponse(status, u))
    ELSE [events |-> <<"callback">>, resolved |-> <<>>, notified |-> <<>>,
          threw |-> FALSE]

(***************************************************************************)
(* State machine                                                           *)
(***************************************************************************)
Init ==
    /\ variant \in Variants
    /\ onTerminateFn = "undefined"
    /\ pc = "idle"
    /\ req = NoRequest
    /\ url = ""
    /\ completion = "none"
    /\ outcome = "none"
    /\ response = <<>>
    /\ resolveCalls = 0
    /\ cb = <<>>
    /\ notified = <<>>
    /\ thrown = <<>>
    /\ trace = <<>>

\* Resonate.onTerminate(fn): only the index.ts snapshot has it
OnTerminate(fn) ==
    /\ variant = "index"
    /\ onTerminateFn # fn
    /\ onTerminateFn' = fn
    /\ UNCHANGED <<variant, pc, req, url, completion, outcome, response,
                   resolveCalls, cb, notified, thrown, trace>>

\* `return new Response(...)` inside the try block
Return(resp, events) ==
    /\ pc' = "done"
    /\ outcome' = "fulfilled"
    /\ response' = <<resp>>
    /\ trace' = trace \o events
    /\ UNCHANGED <<thrown, completion, resolveCalls, cb, notified>>

\* an exception reaching `catch (error)`
Caught(at, detail, events) ==
    /\ pc' = "done"
    /\ outcome' = "fulfilled"
    /\ response' = <<HandlerFailedResponse(detail)>>
    /\ thrown' = thrown \o <<[at |-> at, detail |-> detail]>>
    /\ trace' = trace \o events
    /\ UNCHANGED <<completion, resolveCalls, cb, notified>>

\* an exception inside the Promise executor: the promise is rejected and
\* `return completion` (not awaited) hands the rejection to the caller
Rejected(at, detail, events) ==
    /\ pc' = "done"
    /\ completion' = "rejected"
    /\ outcome' = "rejected"
    /\ thrown' = thrown \o <<[at |-> at, detail |-> detail]>>
    /\ trace' = trace \o events
    /\ UNCHANGED <<response, resolveCalls, cb, notified>>

\* one run of the completion callback; `sync` says it runs inside process(),
\* itself inside the Promise executor
RunCallback(error, status, sync, events) ==
    LET run == Callback(variant, onTerminateFn, url, error, status) IN
    /\ cb' = <<[error |-> error, status |-> status, fn |-> onTerminateFn,
                sync |-> sync]>>
    /\ trace' = trace \o events \o run.events
    /\ notified' = notified \o run.notified
    /\ thrown' = IF run.threw
                 THEN thrown \o <<[at |-> "observer", detail |-> "Error: observer"]>>
                 ELSE thrown
    /\ IF run.resolved # <<>>
       THEN /\ completion' = "resolved"
            /\ outcome' = "fulfilled"
            /\ response' = run.resolved
            /\ resolveCalls' = resolveCalls + 1
            /\ pc' = "done"
       ELSE IF sync /\ run.threw
       THEN /\ completion' = "rejected"
            /\ outcome' = "rejected"
            /\ pc' = "done"
            /\ UNCHANGED <<response, resolveCalls>>
       ELSE /\ completion' = "pending"
            /\ outcome' = "pending"
            /\ pc' = "hung"
            /\ UNCHANGED <<response, resolveCalls>>

\* handler(req) up to `await req.json()`, for any request r
HandlerEntry ==
    /\ pc = "idle"
    /\ \E r \in Requests :
        /\ req' = r
        /\ IF ~MethodAllowed(r.method)
           THEN /\ Return(MethodNotAllowedResponse, <<"methodCheck">>)
                /\ url' = url
           ELSE /\ url' = buildForwardedURL(variant, r)
                /\ pc' = "json"
                /\ trace' = trace \o <<"methodCheck", "buildForwardedURL">>
                /\ UNCHANGED <<completion, outcome, response, resolveCalls, cb,
                               notified, thrown>>
    /\ UNCHANGED <<variant, onTerminateFn>>

\* handler(req) from the result of req.json() to `return completion`.
\* Whether a constructor, startSpan or process throws, and whether the
\* engine calls back before process returns, is the collaborators' choice.
HandlerResume ==
    /\ pc = "json"
    /\ IF req.json = <<>>
       THEN Caught("json", "SyntaxError: Unexpected end of JSON input", <<"json">>)
       ELSE LET body == req.json[1] IN
            IF ~req.bodyStream
            THEN Return(BodyMissingResponse, <<"json", "bodyMissing">>)
            ELSE IF ~BodyShapeOk(body)
            THEN Return(BodyShapeResponse, <<"json", "bodyCheck">>)
            ELSE IF IsNullish(Get(body, "href"))
            THEN Caught("href",
                        "TypeError: Cannot read properties of undefined (reading 'base')",
                        <<"json", "bodyCheck">>)
            ELSE \E step \in ResumeSteps :
                 IF step = "collaborators"
                 THEN Caught("collaborators", "Error: collaborator",
                             <<"json", "bodyCheck">>)
                 ELSE IF step = "startSpan"
                 THEN /\ variant = "index"
                      /\ Rejected("startSpan", "Error: startSpan",
                                  <<"json", "bodyCheck">>)
                 ELSE IF step = "throws"
                 THEN Rejected("process", "Error: process",
                               <<"json", "bodyCheck", "process">>)
                 ELSE IF step = "sync"
                 THEN \E error \in Errors, status \in Statuses :
                         RunCallback(error, status, TRUE,
                                     <<"json", "bodyCheck", "process">>)
                 ELSE /\ step = "async"
                      /\ pc' = "engine"
                      /\ completion' = "pending"
                      /\ outcome' = "pending"
                      /\ trace' = trace \o <<"json", "bodyCheck", "process">>
                      /\ UNCHANGED <<response, resolveCalls, cb, notified, thrown>>
    /\ UNCHANGED <<variant, onTerminateFn, req, url>>

\* the engine invokes the completion callback after process() returned
EngineCallback ==
    /\ pc = "engine"
    /\ \E error \in Errors, status \in Statuses :
          RunCallback(error, status, FALSE, <<>>)
    /\ UNCHANGED <<variant, onTerminateFn, req, url>>

\* the runtime dispatches the next request to the same Resonate instance
NextRequest ==
    /\ pc \in {"done", "hung"}
    /\ pc' = "idle"
    /\ req' = NoRequest
    /\ url' = ""
    /\ completion' = "none"
    /\ outcome' = "none"
    /\ response' = <<>>
    /\ resolveCalls' = 0
    /\ cb' = <<>>
    /\ notified' = <<>>
    /\ thrown' = <<>>
    /\ trace' = <<>>
    /\ UNCHANGED <<variant, onTerminateFn>>

Next ==
    \/ \E fn \in ObserverFns : OnTerminate(fn)
    \/ HandlerEntry
    \/ HandlerResume
    \/ EngineCallback
    \/ NextRequest

Spec == Init /\ [][Next]_vars

(***************************************************************************)
(* Properties                                                              *)
(***************************************************************************)
\* the request has been received and the handler has got past its first await
Answered == pc \notin {"idle", "json"}

\* the handler's promise was fulfilled with a Response
Fulfilled == outcome = "fulfilled" /\ Len(response) = 1

\* the engine's completion callback has run for this request
Fired == cb # <<>>

Has(e) == \E i \in 1..Len(trace) : trace[i] = e

Count(e) == Cardinality({i \in 1..Len(trace) : trace[i] = e})

Before(a, b) ==
    \A i, j \in 1..Len(trace) : (trace[i] = a /\ trace[j] = b) => i < j

\* the callback reported no error and a status of the given kind
Reported(kind) ==
    /\ Fired
    /\ ~Truthy(cb[1].error)
    /\ cb[1].status.t = "object"
    /\ cb[1].status.kind = JStr(kind)

\* the parsed body has no type equal to "invoke" or "resume", or no task field
LacksShape(body) ==
    \/ "type" \notin DOMAIN body
    \/ body.type.t # "string"
    \/ body.type.v \notin {"invoke", "resume"}
    \/ "task" \notin DOMAIN body

ForwardingHeaders ==
    {"x-forwarded-host", "x-forwarded-proto", "x-forwarded-port", "x-forwarded-path"}

\* a POST whose URL was rebuilt with no forwarding header present and a raw
\* path that does not start with /functions/v1
DeployedUnprefixed ==
    /\ pc # "idle"
    /\ req.method = "POST"
    /\ DOMAIN req.headers \cap ForwardingHeaders = {}
    /\ ~StartsWith(req.url.pathname, "/functions/v1")

\* C1: once the engine's completion callback has fired (with an error, a
\* missing status, a completed or a suspended status), the handler is settled
\* with exactly one response: its promise is fulfilled, resolve ran exactly
\* once, and the response is either the 500 failure or a 200 success.
C1_SettledExactlyOnce ==
    Fired =>
        /\ Fulfilled
        /\ completion = "resolved"
        /\ resolveCalls = 1
        /\ response[1].status = (IF ProcessingFailed(cb[1].error, cb[1].status)
                                 THEN 500 ELSE 200)

\* C2: a POST request whose body is absent is answered with status 400 and
\* the "Request body missing." error.
C2_AbsentBody400 ==
    (Answered /\ req.method = "POST" /\ ~req.bodyStream) =>
        /\ Fulfilled
        /\ response[1].status = 400
        /\ response[1].body = Object([error |-> JStr("Request body missing.")])

\* C3: a POST request whose parsed body lacks a type equal to "invoke" or
\* "resume", or lacks a task field, is answered with status 400 and an error
\* body, and the task is never submitted to the engine.
C3_MalformedBody400 ==
    (Answered /\ req.method = "POST" /\ req.json # <<>> /\ LacksShape(req.json[1])) =>
        /\ pc = "done"
        /\ Fulfilled
        /\ response[1].status = 400
        /\ "error" \in DOMAIN response[1].body
        /\ ~Has("process")
        /\ ~Fired

C3_Witness ==
    /\ pc = "done"
    /\ req.method = "POST"
    /\ req.json # <<>>
    /\ "type" \in DOMAIN req.json[1]
    /\ req.json[1].type = JStr("invoke")
    /\ "task" \notin DOMAIN req.json[1]
    /\ Fulfilled
    /\ response[1].status = 400

\* C4: every exception raised while the handler runs (parsing the JSON body,
\* reading body.href.base, building the collaborators, starting the span,
\* calling process) ends in a fulfilled 500 response whose body is
\* {error: "Handler failed: <detail>"}; the handler's promise is never rejected.
C4_ExceptionsCaught ==
    \A i \in 1..Len(thrown) :
        thrown[i].at \in {"json", "href", "collaborators", "startSpan", "process"} =>
            /\ Fulfilled
            /\ response[1].status = 500
            /\ response[1].body =
                   Object([error |-> JStr("Handler failed: " \o thrown[i].detail)])

\* C5: when the observer throws on a completed or suspended outcome, the
\* request still gets the 200 response it would have got otherwise.
C5_ObserverFailureHarmless ==
    (Fired /\ cb[1].fn = "throws" /\ (Reported("completed") \/ Reported("suspended"))) =>
        /\ Fulfilled
        /\ response[1].status = 200
        /\ response[1].body.status = cb[1].status.kind
        /\ response[1].body.requestUrl = JStr(url)

\* C6 (as claimed): on a suspended status the response body carries waitingOn,
\* the callbacks' promiseId values in order.
C6_WaitingOnInBody ==
    (Reported("suspended") /\ Fulfilled) =>
        /\ "waitingOn" \in DOMAIN response[1].body
        /\ response[1].body.waitingOn =
               Array([i \in 1..Len(cb[1].status.callbacks.items) |->
                         cb[1].status.callbacks.items[i].promiseId])

\* C6 (amended): on a suspended status the callbacks' promiseId values, in
\* order, are handed to the registered observer as `result` and to nobody
\* else: the response body is {status: "suspended", requestUrl} and has no
\* waitingOn field.
C6_SuspendedIdsToObserver ==
    Reported("suspended") =>
        /\ notified =
              IF variant = "index" /\ cb[1].fn # "undefined"
              THEN <<[status |-> JStr("suspended"),
                      result |-> Array([i \in 1..Len(cb[1].status.callbacks.items) |->
                                           cb[1].status.callbacks.items[i].promiseId])]>>
              ELSE <<>>
        /\ Fulfilled =>
              /\ response[1].status = 200
              /\ "waitingOn" \notin DOMAIN response[1].body
              /\ response[1].body =
                     Object([status |-> JStr("suspended"), requestUrl |-> JStr(url)])

C6_Witness ==
    /\ Reported("suspended")
    /\ cb[1].status.callbacks.items =
           <<Object([promiseId |-> JStr("a")]), Object([promiseId |-> JStr("b")])>>
    /\ Len(notified) = 1
    /\ notified[1].result = Array(<<JStr("a"), JStr("b")>>)
    /\ Fulfilled
    /\ response[1].status = 200

\* C7: when the callback fires with an error, with or without a status, the
\* response is 500 with error "Task processing failed" and details holding the
\* error and the status, it has no result field, and the observer is not
\* notified.
C7_ErrorIs500 ==
    (Fired /\ Truthy(cb[1].error)) =>
        /\ Fulfilled
        /\ response[1].status = 500
        /\ DOMAIN response[1].body = {"t", "error", "details"}
        /\ response[1].body.error = JStr("Task processing failed")
        /\ response[1].body.details =
               (IF cb[1].status.t = "undefined"
                THEN Object([error |-> cb[1].error])
                ELSE Object([error |-> cb[1].error, status |-> cb[1].status]))
        /\ ~Has("observer")
        /\ notified = <<>>

C7_Witness ==
    /\ Fired
    /\ Truthy(cb[1].error)
    /\ cb[1].fn = "returns"
    /\ cb[1].status.t = "object"
    /\ cb[1].status.kind = JStr("completed")
    /\ Fulfilled
    /\ response[1].status = 500

\* C8: every non-POST request is answered with status 405 and a body with an
\* error field, whatever its headers and body.
C8_NonPost405 ==
    (pc # "idle" /\ req.method # "POST") =>
        /\ pc = "done"
        /\ Fulfilled
        /\ response[1].status = 405
        /\ "error" \in DOMAIN response[1].body
        /\ trace = <<"methodCheck">>

C8_Witness ==
    /\ pc = "done"
    /\ req.method = "PUT"
    /\ req.bodyStream
    /\ req.json # <<>>
    /\ DOMAIN req.headers = DOMAIN HeaderValue
    /\ Fulfilled
    /\ response[1].status = 405

\* C9 (as claimed): in index.ts, with no forwarding headers and a raw path that
\* lacks the prefix, the rebuilt URL keeps the raw URL's protocol and host and
\* gets the prefix once: https://H/P becomes https://H/functions/v1P.
C9_RawProtocolKept ==
    (DeployedUnprefixed /\ variant = "index") =>
        url = req.url.protocol \o "://" \o req.url.hostname
                \o (IF req.url.port = "" THEN "" ELSE ":" \o req.url.port)
                \o "/functions/v1" \o req.url.pathname

\* C9 (amended): in index.ts, with no forwarding headers and a raw path that
\* lacks the prefix, the rebuilt URL is http://<raw hostname>/functions/v1P:
\* the hostname is kept, the protocol falls back to http, a raw port is
\* dropped, and the prefix is prepended once.
C9_PrefixInjectedHttp ==
    (DeployedUnprefixed /\ variant = "index") =>
        url = "http://" \o req.url.hostname \o "/functions/v1" \o req.url.pathname

C9_Witness ==
    /\ pc = "json"
    /\ variant = "index"
    /\ req.headers = [n \in {} |-> ""]
    /\ req.url = [protocol |-> "https", hostname |-> "proj.example.co",
                  port |-> "", pathname |-> "/hello"]
    /\ url = "http://proj.example.co/functions/v1/hello"

\* C10: within one request, process is called at most once and only for a
\* POST whose parsed body has the required shape, after the method check and
\* the body check; the observer is invoked only after the callback reported a
\* completed or suspended status without error, and before the response is
\* settled; a request answered 400 or 405 reached neither engine nor observer.
C10_StepsOrderedAndGated ==
    /\ Count("process") <= 1
    /\ Has("process") =>
          /\ req.method = "POST"
          /\ req.json # <<>>
          /\ ~LacksShape(req.json[1])
          /\ Truthy(req.json[1].task)
          /\ Count("methodCheck") = 1 /\ Count("bodyCheck") = 1
          /\ Before("methodCheck", "bodyCheck")
          /\ Before("bodyCheck", "process")
    /\ Has("observer") =>
          /\ Reported("completed") \/ Reported("suspended")
          /\ Has("process")
          /\ Before("process", "callback")
          /\ Before("callback", "observer")
          /\ Before("observer", "resolve")
    /\ (Fired /\ cb[1].fn # "undefined" /\ Fulfilled /\ response[1].status = 200) =>
          Has("observer")
    /\ (Fulfilled /\ response[1].status \in {400, 405}) =>
          /\ ~Has("process")
          /\ ~Has("observer")
          /\ ~Fired
          /\ notified = <<>>

C10_Witness ==
    /\ trace = <<"methodCheck", "buildForwardedURL", "json", "bodyCheck",
                 "process", "callback", "observer", "resolve">>
    /\ Fulfilled
    /\ response[1].status = 200

====
